---- MODULE Spec2Model ----
(***************************************************************************)
(* Model of git_setup_wizard.py: the managed-file steps of setup_ssh and   *)
(* setup_gpg, the GPG key-id extraction and the shell helpers.             *)
(* Text is a sequence of one-character strings.                            *)
(***************************************************************************)
EXTENDS Integers, Sequences, FiniteSets, TLC

VARIABLES
    files,          \* managed file |-> [exists, content, mode]
    runs,           \* managed file |-> number of times its step has run
    before,         \* managed file |-> the file as it was before its last step
    PINENTRY_PATH,  \* module global of the same name
    output,         \* text returned by gpg --list-secret-keys
    gpg_key_id,     \* identifier parsed from output, or None
    parsed,         \* TRUE once the parsing loop has run over output
    cmd,            \* behaviour of the command handed to a shell helper
    result,         \* what the last shell helper call gave its caller
    pc,             \* where main() is in the current run
    exit_code,      \* exit status of the current run, -1 while it runs
    exit_kind,      \* how the current run ended
    exit_at,        \* the phase in which the current run ended
    run_no,         \* number of the current run; also stands for time.time()
    visited,        \* phases of main() entered in the current run
    probe,          \* what preflight() observed and was answered
    gpg_available,  \* main(): value returned by preflight()
    user_name,      \* collect_info(): name
    user_email,     \* collect_info(): email
    ssh_key,        \* ~/.ssh/id_ed25519: 0 when absent, else the key it holds
    ssh_pub,        \* ~/.ssh/id_ed25519.pub: 0 when absent, else its key
    backups,        \* the id_ed25519*.bak.<ts> files
    ssh_log,        \* setup_ssh events of the current run, in order
    keyring,        \* secret keys gpg lists for the email, in listing order
    declined,       \* key id the user declined to reuse in this run, or None
    gen_failed,     \* TRUE when gpg generation ran in this run and made no key
    git_cmds,       \* git config --global commands issued in this run
    git_config,     \* the global git configuration
    returned_id,    \* main(): gpg_key_id, the value setup_gpg returned
    all_good,       \* main(): all_good
    summary,        \* panel shown by done_summary in this run
    snapshot,       \* the disk as it was when the current run started
    origin          \* the managed files as they were before the first run

wizVars ==
    <<pc, exit_code, exit_kind, exit_at, run_no, visited, probe, gpg_available,
      user_name, user_email, ssh_key, ssh_pub, backups, ssh_log, keyring, declined,
      gen_failed, git_cmds, git_config, returned_id, all_good, summary,
      snapshot, origin>>

vars ==
    <<files, runs, before, PINENTRY_PATH, output, gpg_key_id, parsed, cmd, result,
      wizVars>>

fileVars ==
    <<files, runs, before, PINENTRY_PATH>>

parseVars ==
    <<output, gpg_key_id, parsed>>

shellVars ==
    <<cmd, result>>

(***************************************************************************)
(* Bounds                                                                  *)
(***************************************************************************)
MaxPad ==
    1

MaxRuns ==
    2

(***************************************************************************)
(* Text helpers: str.lower, str.lstrip, str.strip, the in operator         *)
(***************************************************************************)
\* Python None and the empty string are both falsy; a parsed id is never empty
None ==
    <<>>

UpperCase ==
   <<"A","B","C","D","E","F","G","H","I","J","K","L","M","N","O","P","Q",
     "R","S","T","U","V","W","X","Y","Z">>

LowerCase ==
   <<"a","b","c","d","e","f","g","h","i","j","k","l","m","n","o","p","q",
     "r","s","t","u","v","w","x","y","z">>

Whitespace ==
    {" ", "\t", "\n", "\r", "\f"}

LowerChar(c) ==
    IF \E i \in 1..Len(UpperCase) : UpperCase[i] = c
    THEN LowerCase[CHOOSE i \in 1..Len(UpperCase) : UpperCase[i] = c]
    ELSE c

Lower(s) ==
    [i \in 1..Len(s) |-> LowerChar(s[i])]

RECURSIVE LStrip(_)
LStrip(s) ==
    IF s # <<>> /\ Head(s) \in Whitespace THEN LStrip(Tail(s)) ELSE s

RECURSIVE RStrip(_)
RStrip(s) ==
    IF s # <<>> /\ s[Len(s)] \in Whitespace
    THEN RStrip(SubSeq(s, 1, Len(s) - 1))
    ELSE s

Strip(s) ==
    RStrip(LStrip(s))

StartsWith(s, p) ==
    Len(s) >= Len(p) /\ SubSeq(s, 1, Len(p)) = p

Contains(s, sub) ==
    \E i \in 1..(Len(s) - Len(sub) + 1) : SubSeq(s, i, i + Len(sub) - 1) = sub

(***************************************************************************)
(* Fixed texts of the managed-file steps                                   *)
(***************************************************************************)
GITHUB_MARKER ==
   <<"g","i","t","h","u","b",".","c","o","m">>

github_block ==
   <<"\n","H","o","s","t"," ","g","i","t","h","u","b",".","c","o","m","\n",
     " "," ","A","d","d","K","e","y","s","T","o","A","g","e","n","t"," ",
     "y","e","s","\n"," "," ","U","s","e","K","e","y","c","h","a","i","n",
     " ","y","e","s","\n"," "," ","I","d","e","n","t","i","t","y","F","i",
     "l","e"," ","~","/",".","s","s","h","/","i","d","_","e","d","2","5",
     "5","1","9","\n">>

PINENTRY_MARKER ==
   <<"p","i","n","e","n","t","r","y","-","p","r","o","g","r","a","m">>

PinentryOptHomebrew ==
   <<"/","o","p","t","/","h","o","m","e","b","r","e","w","/","b","i","n",
     "/","p","i","n","e","n","t","r","y","-","m","a","c">>

PinentryUsrLocal ==
   <<"/","u","s","r","/","l","o","c","a","l","/","b","i","n","/","p","i",
     "n","e","n","t","r","y","-","m","a","c">>

pinentry_line(path) ==
    PINENTRY_MARKER \o <<" ">> \o path

GPG_TTY_MARKER ==
   <<"G","P","G","_","T","T","Y">>

gpg_tty_append ==
   <<"\n","#"," ","G","P","G"," ","c","o","m","m","i","t"," ","s","i","g",
     "n","i","n","g","\n","e","x","p","o","r","t"," ","G","P","G","_","T",
     "T","Y","=","$","(","t","t","y",")","\n">>

gpg_tty_create ==
   <<"#"," ","G","P","G"," ","c","o","m","m","i","t"," ","s","i","g","n",
     "i","n","g","\n","e","x","p","o","r","t"," ","G","P","G","_","T","T",
     "Y","=","$","(","t","t","y",")","\n">>

(***************************************************************************)
(* Managed files                                                           *)
(***************************************************************************)
SSH_CONFIG ==
    "ssh_config"

GPG_AGENT_CONF ==
    "gpg_agent_conf"

SHELL_RC ==
    "shell_rc"

ManagedFiles ==
    {SSH_CONFIG, GPG_AGENT_CONF, SHELL_RC}

AbsentFile ==
    [exists |-> FALSE, content |-> <<>>, mode |-> "none"]

\* Path.write_text on a path that does not exist: mode left to the umask
WriteText(text) ==
    [exists |-> TRUE, content |-> text, mode |-> "umask"]

\* the file opened with "w" instead of "a"
AppendTextTruncating(f, text) ==
    [f EXCEPT !.content = text]

\* open(path, "a") followed by f.write(text)
AppendText(f, text) ==
    [f EXCEPT !.content = @ \o text]

\* the chmod call left out
ChmodSkipped(f) ==
    f

\* SSH_CONFIG.chmod(0o600)
Chmod600(f) ==
    [f EXCEPT !.mode = "0600"]

\* the marker written in mixed case while the content is lowercased
HasGithubEntryMixedCase(content) ==
    Contains(Lower(content), <<"G","i","t","H","u","b",".","c","o","m">>)

\* "github.com" in content.lower()
HasGithubEntry(content) ==
    Contains(Lower(content), GITHUB_MARKER)

\* the marker looked for at the start of the file only
HasPinentryAtStart(content) ==
    StartsWith(content, PINENTRY_MARKER)

\* "pinentry-program" in content
HasPinentry(content) ==
    Contains(content, PINENTRY_MARKER)

\* the content lowercased before the test, as it is for ~/.ssh/config
HasGpgTtyAnyCase(content) ==
    Contains(Lower(content), Lower(GPG_TTY_MARKER))

\* "GPG_TTY" in content
HasGpgTty(content) ==
    Contains(content, GPG_TTY_MARKER)

\* setup_ssh, the ~/.ssh/config part
SshConfigStep(f) ==
    IF f.exists
    THEN IF HasGithubEntry(f.content)
         THEN f
         ELSE AppendText(f, github_block)
    ELSE Chmod600(WriteText(LStrip(github_block)))

\* setup_gpg, the gpg-agent.conf part
GpgAgentConfStep(f, path) ==
    IF f.exists
    THEN IF ~HasPinentry(f.content)
         THEN AppendText(f, <<"\n">> \o pinentry_line(path) \o <<"\n">>)
         ELSE f
    ELSE WriteText(pinentry_line(path) \o <<"\n">>)

\* the block appended without looking for the marker
ShellRcStepBlind(f) ==
    IF f.exists
    THEN AppendText(f, gpg_tty_append)
    ELSE WriteText(gpg_tty_create)

\* setup_gpg, the shell rc part
ShellRcStep(f) ==
    IF f.exists
    THEN IF ~HasGpgTty(f.content)
         THEN AppendText(f, gpg_tty_append)
         ELSE f
    ELSE WriteText(gpg_tty_create)

(***************************************************************************)
(* Initial contents of the managed files                                   *)
(***************************************************************************)
GithubMixedCase ==
   <<"G","i","t","H","u","b",".","c","o","m">>

GitlabHost ==
   <<"g","i","t","l","a","b",".","c","o","m">>

PinentryMixedCase ==
   <<"P","i","n","e","n","t","r","y","-","P","r","o","g","r","a","m">>

PinentryTimeout ==
   <<"p","i","n","e","n","t","r","y","-","t","i","m","e","o","u","t">>

GpgTtyLowerCase ==
   <<"g","p","g","_","t","t","y">>

GpgAgentInfo ==
   <<"G","P","G","_","A","G","E","N","T","_","I","N","F","O">>

PadChars ==
    {"\n", "x"}

SeqsUpTo(S, n) ==
    UNION {[1..k -> S] : k \in 0..n}

Pads ==
    SeqsUpTo(PadChars, MaxPad)

\* a file ends with or without a newline
Tails ==
    {<<>>, <<"\n">>}

\* the text a file holds between its leading and trailing padding: nothing
\* (bare), the marker, the marker in another letter case, or a near miss
Shapes ==
    {"absent", "bare", "marker", "othercase", "nearmiss"}

Core(name, shape) ==
    CASE name = SSH_CONFIG ->
            (CASE shape = "marker" -> GITHUB_MARKER
               [] shape = "othercase" -> GithubMixedCase
               [] shape = "nearmiss" -> GitlabHost
               [] OTHER -> <<>>)
      [] name = GPG_AGENT_CONF ->
            (CASE shape = "marker" -> PINENTRY_MARKER
               [] shape = "othercase" -> PinentryMixedCase
               [] shape = "nearmiss" -> PinentryTimeout
               [] OTHER -> <<>>)
      [] name = SHELL_RC ->
            (CASE shape = "marker" -> GPG_TTY_MARKER
               [] shape = "othercase" -> GpgTtyLowerCase
               [] shape = "nearmiss" -> GpgAgentInfo
               [] OTHER -> <<>>)

InitialFile(name, shape, pre, post) ==
    IF shape = "absent"
    THEN AbsentFile
    ELSE [exists |-> TRUE,
          content |-> pre \o Core(name, shape) \o post,
          mode |-> "0644"]

(***************************************************************************)
(* The managed-file steps as actions                                       *)
(***************************************************************************)
IdleParse ==
    /\ output = <<>>
    /\ gpg_key_id = None
    /\ parsed = FALSE

NoCmd ==
    [launch |-> "ok", returncode |-> 0, stdout |-> <<>>]

NoResult ==
    [op |-> "none", kind |-> "none", text |-> <<>>, ok |-> FALSE]

IdleShell ==
    /\ cmd = NoCmd
    /\ result = NoResult

\* main() not started: the values its state has outside a wizard run
NoProbe ==
    [platform |-> "unknown", git |-> FALSE, brew |-> FALSE, install |-> FALSE,
     brew_after |-> FALSE, gpg |-> FALSE]

NoDisk ==
    [files |-> [n \in ManagedFiles |-> AbsentFile], ssh_key |-> 0, ssh_pub |-> 0,
     backups |-> {}, keyring |-> <<>>,
     git_config |-> [k \in {"user.signingkey", "user.name", "user.email",
                            "gpg.program", "commit.gpgsign"} |-> <<>>]]

IdleWizard ==
    /\ pc = "idle"
    /\ exit_code = -1
    /\ exit_kind = "none"
    /\ exit_at = "none"
    /\ run_no = 0
    /\ visited = {}
    /\ probe = NoProbe
    /\ gpg_available = FALSE
    /\ user_name = "none"
    /\ user_email = "none"
    /\ ssh_key = 0
    /\ ssh_pub = 0
    /\ backups = {}
    /\ ssh_log = <<>>
    /\ keyring = <<>>
    /\ declined = None
    /\ gen_failed = FALSE
    /\ git_cmds = <<>>
    /\ git_config = NoDisk.git_config
    /\ returned_id = None
    /\ all_good = FALSE
    /\ summary = "none"
    /\ snapshot = NoDisk
    /\ origin = [n \in ManagedFiles |-> AbsentFile]

IdleFiles ==
    /\ files = [n \in ManagedFiles |-> AbsentFile]
    /\ runs = [n \in ManagedFiles |-> 0]
    /\ before = [n \in ManagedFiles |-> AbsentFile]
    /\ PINENTRY_PATH = PinentryOptHomebrew

InitFiles ==
    /\ \E pre \in Pads, post \in Tails, shape \in [ManagedFiles -> Shapes] :
          files = [n \in ManagedFiles |-> InitialFile(n, shape[n], pre, post)]
    /\ runs = [n \in ManagedFiles |-> 0]
    /\ before = files
    /\ PINENTRY_PATH \in {PinentryOptHomebrew, PinentryUsrLocal}
    /\ IdleParse
    /\ IdleShell
    /\ IdleWizard

StepOn(name, after) ==
    /\ runs[name] < MaxRuns
    /\ files' = [files EXCEPT ![name] = after]
    /\ before' = [before EXCEPT ![name] = files[name]]
    /\ runs' = [runs EXCEPT ![name] = @ + 1]
    /\ UNCHANGED <<PINENTRY_PATH, parseVars, shellVars, wizVars>>

EnsureSshConfig ==
    StepOn(SSH_CONFIG, SshConfigStep(files[SSH_CONFIG]))

EnsureGpgAgentConf ==
    StepOn(GPG_AGENT_CONF, GpgAgentConfStep(files[GPG_AGENT_CONF], PINENTRY_PATH))

EnsureShellRc ==
    StepOn(SHELL_RC, ShellRcStep(files[SHELL_RC]))

NextFiles ==
    \/ EnsureSshConfig
    \/ EnsureGpgAgentConf
    \/ EnsureShellRc

SpecFiles ==
    InitFiles /\ [][NextFiles]_vars

(***************************************************************************)
(* GPG key-id extraction (setup_gpg, the loop over the sec lines)          *)
(***************************************************************************)
MaxLines ==
    2

MIN_KEY_LEN ==
    8

SEC_PREFIX ==
   <<"s","e","c">>

HexChars ==
    {"A","B","C","D","E","F","0","1","2","3","4","5","6","7","8","9"}

Min(S) ==
    CHOOSE x \in S : \A y \in S : x <= y

\* str.split("\n")
RECURSIVE SplitLines(_)
SplitLines(s) ==
    LET breaks == {i \in 1..Len(s) : s[i] = "\n"}
    IN  IF breaks = {}
        THEN <<s>>
        ELSE <<SubSeq(s, 1, Min(breaks) - 1)>>
                 \o SplitLines(SubSeq(s, Min(breaks) + 1, Len(s)))

\* length of the run of [A-F0-9] that starts at index i
RECURSIVE HexRunLen(_, _)
HexRunLen(s, i) ==
    IF i <= Len(s) /\ s[i] \in HexChars THEN 1 + HexRunLen(s, i + 1) ELSE 0

\* the pattern written with {8} instead of {8,}: the match stops after 8
RegexSearchExactly8(line) ==
    LET starts == {i \in 1..Len(line) :
                      line[i] = "/" /\ HexRunLen(line, i + 1) >= MIN_KEY_LEN}
    IN  IF starts = {}
        THEN None
        ELSE SubSeq(line, Min(starts) + 1, Min(starts) + MIN_KEY_LEN)

\* re.search(r'/([A-F0-9]{8,})', line), group 1: leftmost match, greedy
RegexSearch(line) ==
    LET starts == {i \in 1..Len(line) :
                      line[i] = "/" /\ HexRunLen(line, i + 1) >= MIN_KEY_LEN}
    IN  IF starts = {}
        THEN None
        ELSE SubSeq(line, Min(starts) + 1,
                    Min(starts) + HexRunLen(line, Min(starts) + 1))

\* the prefix test written with too short a prefix
IsRecordLineShortPrefix(line) ==
    StartsWith(line, <<"s">>)

\* line.startswith("sec")
IsRecordLine(line) ==
    StartsWith(line, SEC_PREFIX)

\* for line in text.split("\n"): strip, startswith, search, break on a match
RECURSIVE ParseLines(_)
ParseLines(lines) ==
    IF lines = <<>>
    THEN None
    ELSE LET line == Strip(Head(lines))
         IN  IF IsRecordLine(line) /\ RegexSearch(line) # None
             THEN RegexSearch(line)
             ELSE ParseLines(Tail(lines))

\* existing = sh(...); if existing and "sec" in existing: parse
ParseKeyId(stdout) ==
    LET existing == Strip(stdout)
    IN  IF existing # <<>> /\ Contains(existing, SEC_PREFIX)
        THEN ParseLines(SplitLines(existing))
        ELSE None

(***************************************************************************)
(* Listings handed to the extraction                                       *)
(***************************************************************************)
\* the key id of the sample listing
SampleKey ==
   <<"2","B","A","6","D","A","D","D","4","F","B","0","5","F","1","4">>

OtherKey ==
   <<"A","B","C","D","E","F","1","2">>

\* SampleKey with the character after its first k replaced by c
Broken(k, c) ==
    SubSeq(SampleKey, 1, k) \o <<c>> \o SubSeq(SampleKey, k + 2, Len(SampleKey))

CutPoints ==
    {MIN_KEY_LEN - 1, MIN_KEY_LEN + 3}

StrayChars ==
    {"W", "b"}

KeyTokens ==
    {SampleKey, SubSeq(SampleKey, 1, MIN_KEY_LEN - 1), SubSeq(SampleKey, 1, MIN_KEY_LEN)}
        \cup {Broken(k, c) : k \in CutPoints, c \in StrayChars}

Algo ==
   <<"e","d">>

\* the part of a listing line after the record prefix
Fields ==
    {Algo \o <<"/">> \o t : t \in KeyTokens}
        \cup {Algo,
              Algo \o <<"/">> \o SubSeq(SampleKey, 1, 2) \o <<" ", "/">> \o OtherKey,
              Algo \o <<"/">> \o SampleKey \o <<" ", "/">> \o OtherKey}

Prefixes ==
    {SEC_PREFIX, <<" ">> \o SEC_PREFIX, <<"s","s","b">>}

ListingLines ==
    {p \o <<" ">> \o f : p \in Prefixes, f \in Fields}

RECURSIVE JoinLines(_)
JoinLines(lines) ==
    IF lines = <<>>
    THEN <<>>
    ELSE Head(lines) \o <<"\n">> \o JoinLines(Tail(lines))

Listings ==
    {JoinLines(ls) : ls \in SeqsUpTo(ListingLines, MaxLines)}

InitParse ==
    /\ output \in Listings
    /\ gpg_key_id = None
    /\ parsed = FALSE
    /\ IdleFiles
    /\ IdleShell
    /\ IdleWizard

ParseListing ==
    /\ ~parsed
    /\ gpg_key_id' = ParseKeyId(output)
    /\ parsed' = TRUE
    /\ UNCHANGED <<output, fileVars, shellVars, wizVars>>

NextParse ==
    ParseListing

SpecParse ==
    InitParse /\ [][NextParse]_vars

(***************************************************************************)
(* Shell helpers sh, sh_ok, cmd_exists                                     *)
(***************************************************************************)
MaxOut ==
    2

OutChars ==
    {"h", " ", "\n"}

ReturnCodes ==
    {0, 1, 127}

\* what subprocess.run does with a command: it raises, or the command runs
\* to an exit status with some captured stdout
Commands ==
    [launch : {"ok"}, returncode : ReturnCodes, stdout : SeqsUpTo(OutChars, MaxOut)]
        \cup {[launch |-> "raises", returncode |-> 0, stdout |-> <<>>]}

Returned(op, kind, text, ok) ==
    [op |-> op, kind |-> kind, text |-> text, ok |-> ok]

\* try: return subprocess.run(...).stdout.strip()  except Exception: return ""
sh(c) ==
    IF c.launch = "raises"
    THEN Returned("sh", "text", <<>>, FALSE)
    ELSE Returned("sh", "text", Strip(c.stdout), FALSE)

\* return subprocess.run(...).returncode == 0, with no exception handler
sh_ok(c) ==
    IF c.launch = "raises"
    THEN Returned("sh_ok", "raised", <<>>, FALSE)
    ELSE Returned("sh_ok", "bool", <<>>, c.returncode = 0)

\* return sh_ok(f"which {name}"); c is the behaviour of that which command
cmd_exists(c) ==
    [sh_ok(c) EXCEPT !.op = "cmd_exists"]

InitShell ==
    /\ cmd \in Commands
    /\ result = NoResult
    /\ IdleFiles
    /\ IdleParse
    /\ IdleWizard

CallSh ==
    /\ result' = sh(cmd)
    /\ UNCHANGED <<cmd, fileVars, parseVars, wizVars>>

CallShOk ==
    /\ result' = sh_ok(cmd)
    /\ UNCHANGED <<cmd, fileVars, parseVars, wizVars>>

CallCmdExists ==
    /\ result' = cmd_exists(cmd)
    /\ UNCHANGED <<cmd, fileVars, parseVars, wizVars>>

NextShell ==
    \/ CallSh
    \/ CallShOk
    \/ CallCmdExists

SpecShell ==
    InitShell /\ [][NextShell]_vars

(***************************************************************************)
(* The wizard: main() and the phases it runs                               *)
(***************************************************************************)
MaxWizardRuns ==
    2

MaxGpgKeys ==
    2

EXIT_OK ==
    0

EXIT_FAILED ==
    1

EXIT_INTERRUPTED ==
    130

ctlVars ==
    <<pc, exit_code, exit_kind, exit_at, visited>>

runVars ==
    <<run_no, snapshot, origin>>

idVars ==
    <<user_name, user_email>>

sshVars ==
    <<ssh_key, ssh_pub, backups, ssh_log>>

gpgVars ==
    <<keyring, declined, gen_failed, git_cmds, git_config>>

stepVars ==
    <<files, runs, before>>

\* the phase of main() a position belongs to
PhaseOf(p) ==
    CASE p \in {"ssh_choice", "ssh_keygen", "ssh_config", "ssh_publish"} -> "setup_ssh"
      [] p \in {"gpg_agent_conf", "gpg_existing", "gpg_generate", "git_config",
                "shell_rc", "gpg_export"} -> "setup_gpg"
      [] p = "source_rc" -> "done_summary"
      [] OTHER -> p

\* the order in which main() calls its phases
PhaseRank(ph) ==
    CASE ph = "welcome" -> 0
      [] ph = "preflight" -> 1
      [] ph = "collect_info" -> 2
      [] ph = "setup_ssh" -> 3
      [] ph = "setup_gpg" -> 4
      [] ph = "verify" -> 5
      [] ph = "done_summary" -> 6

Goto(p) ==
    /\ pc' = p
    /\ visited' = visited \cup {PhaseOf(p)}
    /\ UNCHANGED <<exit_code, exit_kind, exit_at>>

\* sys.exit(code), an exception leaving main(), or main() returning
Exit(code, kind) ==
    /\ pc' = "exited"
    /\ exit_code' = code
    /\ exit_kind' = kind
    /\ exit_at' = PhaseOf(pc)
    /\ UNCHANGED visited

Disk ==
    [files |-> files, ssh_key |-> ssh_key, ssh_pub |-> ssh_pub,
     backups |-> backups, keyring |-> keyring, git_config |-> git_config]

WizardShapes ==
    {"absent", "nearmiss", "marker"}

UserNames ==
    {"Helen Hunt"}

UserEmails ==
    {"hhunt@twister.com"}

\* the machines a first run starts on: a fresh one, one set up before, and
\* one somebody half set up by hand (public key gone, markers in another case)
Machines ==
    {[shape |-> "absent", ssh_key |-> 0, ssh_pub |-> 0, keyring |-> <<>>],
     [shape |-> "nearmiss", ssh_key |-> 1, ssh_pub |-> 0, keyring |-> <<1>>],
     [shape |-> "marker", ssh_key |-> 1, ssh_pub |-> 1, keyring |-> <<1>>]}

Init ==
    /\ \E m \in Machines :
          /\ files = [n \in ManagedFiles |-> InitialFile(n, m.shape, <<>>, <<"\n">>)]
          /\ ssh_key = m.ssh_key
          /\ ssh_pub = m.ssh_pub
          /\ keyring = m.keyring
    /\ runs = [n \in ManagedFiles |-> 0]
    /\ before = files
    /\ origin = files
    /\ PINENTRY_PATH \in {PinentryOptHomebrew, PinentryUsrLocal}
    /\ IdleParse
    /\ IdleShell
    /\ pc = "welcome"
    /\ exit_code = -1
    /\ exit_kind = "none"
    /\ exit_at = "none"
    /\ run_no = 1
    /\ visited = {"welcome"}
    /\ probe = NoProbe
    /\ gpg_available = FALSE
    /\ user_name = "none"
    /\ user_email = "none"
    /\ backups = {}
    /\ ssh_log = <<>>
    /\ declined = None
    /\ gen_failed = FALSE
    /\ git_cmds = <<>>
    /\ git_config = NoDisk.git_config
    /\ returned_id = None
    /\ all_good = FALSE
    /\ summary = "none"
    /\ snapshot = [files |-> files, ssh_key |-> ssh_key, ssh_pub |-> ssh_pub,
                   backups |-> {}, keyring |-> keyring,
                   git_config |-> NoDisk.git_config]

\* a decline treated as a failure: sys.exit(1)
WelcomeDeclineFails ==
    /\ pc = "welcome"
    /\ \E ready \in BOOLEAN :
          IF ready THEN Goto("preflight") ELSE Exit(EXIT_FAILED, "sys_exit")
    /\ UNCHANGED <<stepVars, PINENTRY_PATH, parseVars, shellVars, runVars, idVars,
                   sshVars, gpgVars, probe, gpg_available, returned_id, all_good,
                   summary>>

\* welcome(): Confirm.ask("Ready?"), sys.exit(0) on a no
Welcome ==
    /\ pc = "welcome"
    /\ \E ready \in BOOLEAN :
          IF ready THEN Goto("preflight") ELSE Exit(EXIT_OK, "sys_exit")
    /\ UNCHANGED <<stepVars, PINENTRY_PATH, parseVars, shellVars, runVars, idVars,
                   sshVars, gpgVars, probe, gpg_available, returned_id, all_good,
                   summary>>

\* what preflight() can observe and be answered
Envs ==
    [platform : {"Darwin", "Linux"}, git : BOOLEAN, brew : BOOLEAN,
     install : BOOLEAN, brew_after : BOOLEAN, gpg : BOOLEAN]

\* preflight() returning False where it should exit
preflightSoftOnly(e) ==
    IF e.platform # "Darwin" \/ ~e.git \/ (~e.brew /\ ~(e.install /\ e.brew_after))
    THEN [exit |-> -1, ret |-> FALSE]
    ELSE [exit |-> -1, ret |-> e.gpg]

\* preflight(): e.gpg says whether gpg is on PATH once brew install gnupg,
\* if it was needed, has run
preflight(e) ==
    IF e.platform # "Darwin" THEN [exit |-> EXIT_FAILED, ret |-> FALSE]
    ELSE IF ~e.git THEN [exit |-> EXIT_FAILED, ret |-> FALSE]
    ELSE IF ~e.brew /\ e.install /\ ~e.brew_after
         THEN [exit |-> EXIT_FAILED, ret |-> FALSE]
    ELSE IF ~e.brew /\ ~e.install THEN [exit |-> -1, ret |-> FALSE]
    ELSE IF ~e.gpg THEN [exit |-> -1, ret |-> FALSE]
    ELSE [exit |-> -1, ret |-> TRUE]

\* the part of e that preflight() reads before it exits or returns
Observed(e) ==
    IF e.platform # "Darwin"
    THEN [NoProbe EXCEPT !.platform = e.platform]
    ELSE IF ~e.git
    THEN [NoProbe EXCEPT !.platform = e.platform]
    ELSE IF e.brew
    THEN [NoProbe EXCEPT !.platform = e.platform, !.git = TRUE, !.brew = TRUE,
                         !.gpg = e.gpg]
    ELSE IF ~e.install
    THEN [NoProbe EXCEPT !.platform = e.platform, !.git = TRUE]
    ELSE IF ~e.brew_after
    THEN [NoProbe EXCEPT !.platform = e.platform, !.git = TRUE, !.install = TRUE]
    ELSE [NoProbe EXCEPT !.platform = e.platform, !.git = TRUE, !.install = TRUE,
                         !.brew_after = TRUE, !.gpg = e.gpg]

\* gpg_available = preflight(); a preflight that gets to the pinentry-mac
\* check may leave PINENTRY_PATH at either Homebrew location
Preflight ==
    /\ pc = "preflight"
    /\ \E e \in Envs, path \in {PinentryOptHomebrew, PinentryUsrLocal} :
          /\ probe' = Observed(e)
          /\ IF preflight(e).exit # -1
             THEN /\ Exit(preflight(e).exit, "sys_exit")
                  /\ UNCHANGED <<gpg_available, PINENTRY_PATH>>
             ELSE /\ Goto("collect_info")
                  /\ gpg_available' = preflight(e).ret
                  /\ PINENTRY_PATH' = IF preflight(e).ret \/ Observed(e).install
                                      THEN path
                                      ELSE PINENTRY_PATH
    /\ UNCHANGED <<stepVars, parseVars, shellVars, runVars, idVars, sshVars,
                   gpgVars, returned_id, all_good, summary>>

\* collect_info(): two prompts, then "Look right?"; a no asks again
CollectInfo ==
    /\ pc = "collect_info"
    /\ \E n \in UserNames, e \in UserEmails, right \in BOOLEAN :
          /\ user_name' = n
          /\ user_email' = e
          /\ IF right THEN Goto("ssh_choice") ELSE Goto("collect_info")
    /\ UNCHANGED <<stepVars, PINENTRY_PATH, parseVars, shellVars, runVars, sshVars,
                   gpgVars, probe, gpg_available, returned_id, all_good, summary>>

\* what a managed-file step can meet: no error, an error before anything is
\* written, or (when the file is created and then chmod-ed) an error in chmod
IoOutcomes ==
    {"ok", "write_fails", "chmod_fails"}

\* the OSError caught where the step is, the run going on with the next step
FileStepAbortsStepOnly(n, after, next, io) ==
    /\ io = "chmod_fails" => (n = SSH_CONFIG /\ ~files[n].exists)
    /\ files' = IF io = "ok"
                THEN [files EXCEPT ![n] = after]
                ELSE IF io = "chmod_fails"
                THEN [files EXCEPT ![n] = WriteText(after.content)]
                ELSE files
    /\ Goto(next)
    /\ UNCHANGED <<before, runs>>

\* a managed-file step inside a run: the step, or the OSError it raises,
\* which leaves main() through "except Exception: ... raise"
FileStep(n, after, next, io) ==
    /\ io = "chmod_fails" => (n = SSH_CONFIG /\ ~files[n].exists)
    /\ IF io = "ok"
       THEN /\ files' = [files EXCEPT ![n] = after]
            /\ Goto(next)
       ELSE /\ files' = IF io = "chmod_fails"
                        THEN [files EXCEPT ![n] = WriteText(after.content)]
                        ELSE files
            /\ Exit(EXIT_FAILED, "exception")
    /\ UNCHANGED <<before, runs>>

\* replace unlinking the old key files instead of renaming them
SshChoiceUnlinks ==
    /\ pc = "ssh_choice"
    /\ IF ssh_key # 0
       THEN \E choice \in {"keep", "replace"} :
               IF choice = "replace"
               THEN /\ ssh_key' = 0
                    /\ ssh_pub' = 0
                    /\ ssh_log' = Append(ssh_log, "backup")
                    /\ UNCHANGED backups
               ELSE /\ ssh_log' = Append(ssh_log, "keep")
                    /\ UNCHANGED <<ssh_key, ssh_pub, backups>>
       ELSE UNCHANGED sshVars
    /\ Goto("ssh_keygen")
    /\ UNCHANGED <<stepVars, PINENTRY_PATH, parseVars, shellVars, runVars, idVars,
                   gpgVars, probe, gpg_available, returned_id, all_good, summary>>

\* setup_ssh(): existing key, Prompt.ask keep / replace, rename to .bak.<ts>
SshChoice ==
    /\ pc = "ssh_choice"
    /\ IF ssh_key # 0
       THEN \E choice \in {"keep", "replace"} :
               IF choice = "replace"
               THEN /\ backups' = backups
                         \cup {[file |-> "id_ed25519", ts |-> run_no, key |-> ssh_key]}
                         \cup (IF ssh_pub # 0
                               THEN {[file |-> "id_ed25519.pub", ts |-> run_no,
                                      key |-> ssh_pub]}
                               ELSE {})
                    /\ ssh_key' = 0
                    /\ ssh_pub' = 0
                    /\ ssh_log' = Append(ssh_log, "backup")
               ELSE /\ ssh_log' = Append(ssh_log, "keep")
                    /\ UNCHANGED <<ssh_key, ssh_pub, backups>>
       ELSE UNCHANGED sshVars
    /\ Goto("ssh_keygen")
    /\ UNCHANGED <<stepVars, PINENTRY_PATH, parseVars, shellVars, runVars, idVars,
                   gpgVars, probe, gpg_available, returned_id, all_good, summary>>

\* ssh-keygen run without the test "if not SSH_KEY.exists()"
SshKeygenUnguarded ==
    /\ pc = "ssh_keygen"
    /\ \E made \in BOOLEAN :
          /\ ssh_log' = Append(ssh_log, "keygen")
          /\ IF made
             THEN /\ ssh_key' = run_no + 1
                  /\ ssh_pub' = run_no + 1
                  /\ Goto("ssh_config")
             ELSE /\ UNCHANGED <<ssh_key, ssh_pub>>
                  /\ IF ssh_key = 0
                     THEN Exit(EXIT_FAILED, "sys_exit")
                     ELSE Goto("ssh_config")
    /\ UNCHANGED <<stepVars, PINENTRY_PATH, parseVars, shellVars, runVars, idVars,
                   backups, gpgVars, probe, gpg_available, returned_id, all_good,
                   summary>>

\* the sys.exit(1) left out: setup_ssh goes on without a key
SshKeygenNotFatal ==
    /\ pc = "ssh_keygen"
    /\ IF ssh_key = 0
       THEN \E made \in BOOLEAN :
               /\ ssh_log' = Append(ssh_log, "keygen")
               /\ IF made
                  THEN /\ ssh_key' = run_no + 1
                       /\ ssh_pub' = run_no + 1
                  ELSE UNCHANGED <<ssh_key, ssh_pub>>
       ELSE UNCHANGED <<ssh_key, ssh_pub, ssh_log>>
    /\ Goto("ssh_config")
    /\ UNCHANGED <<stepVars, PINENTRY_PATH, parseVars, shellVars, runVars, idVars,
                   backups, gpgVars, probe, gpg_available, returned_id, all_good,
                   summary>>

\* setup_ssh(): ssh-keygen when no key is at the key path; sys.exit(1) when
\* there is still none afterwards; then ssh-add
SshKeygen ==
    /\ pc = "ssh_keygen"
    /\ IF ssh_key = 0
       THEN \E made \in BOOLEAN :
               /\ ssh_log' = Append(ssh_log, "keygen")
               /\ IF made
                  THEN /\ ssh_key' = run_no + 1
                       /\ ssh_pub' = run_no + 1
                       /\ Goto("ssh_config")
                  ELSE /\ UNCHANGED <<ssh_key, ssh_pub>>
                       /\ Exit(EXIT_FAILED, "sys_exit")
       ELSE /\ UNCHANGED <<ssh_key, ssh_pub, ssh_log>>
            /\ Goto("ssh_config")
    /\ UNCHANGED <<stepVars, PINENTRY_PATH, parseVars, shellVars, runVars, idVars,
                   backups, gpgVars, probe, gpg_available, returned_id, all_good,
                   summary>>

\* setup_ssh(): the ~/.ssh/config part
SshConfig ==
    /\ pc = "ssh_config"
    /\ \E io \in IoOutcomes :
          FileStep(SSH_CONFIG, SshConfigStep(files[SSH_CONFIG]), "ssh_publish", io)
    /\ ssh_log' = Append(ssh_log, "config")
    /\ UNCHANGED <<PINENTRY_PATH, parseVars, shellVars, runVars, idVars, ssh_key,
                   ssh_pub, backups, gpgVars, probe, gpg_available, returned_id,
                   all_good, summary>>

\* main() calling setup_gpg without looking at gpg_available
SshPublishThenGpg ==
    /\ pc = "ssh_publish"
    /\ Goto("gpg_agent_conf")
    /\ UNCHANGED <<stepVars, PINENTRY_PATH, parseVars, shellVars, runVars, idVars,
                   sshVars, gpgVars, probe, gpg_available, returned_id, all_good,
                   summary>>

\* setup_ssh(): copy the public key, GitHub panel, connection test; then
\* main(): setup_gpg when gpg_available, else no verification either
SshPublish ==
    /\ pc = "ssh_publish"
    /\ IF gpg_available THEN Goto("gpg_agent_conf") ELSE Goto("done_summary")
    /\ UNCHANGED <<stepVars, PINENTRY_PATH, parseVars, shellVars, runVars, idVars,
                   sshVars, gpgVars, probe, gpg_available, returned_id, all_good,
                   summary>>

\* setup_gpg(): the gpg-agent.conf part
GpgAgentConf ==
    /\ pc = "gpg_agent_conf"
    /\ \E io \in IoOutcomes :
          FileStep(GPG_AGENT_CONF,
                   GpgAgentConfStep(files[GPG_AGENT_CONF], PINENTRY_PATH),
                   "gpg_existing", io)
    /\ UNCHANGED <<PINENTRY_PATH, parseVars, shellVars, runVars, idVars, sshVars,
                   gpgVars, probe, gpg_available, returned_id, all_good, summary>>

\* the 8-character key id of the n-th key gpg can hold
GpgKeyId(n) ==
    SubSeq(SampleKey, n, n + MIN_KEY_LEN - 1)

\* gpg --list-secret-keys --keyid-format LONG "<email>"
Listing(ring) ==
    JoinLines([i \in 1..Len(ring) |->
                  SEC_PREFIX \o <<" ", " ", " ">> \o Algo \o <<"/">> \o GpgKeyId(ring[i])])

\* setup_gpg(): look for an existing key, "Use this existing key?"
GpgExisting ==
    /\ pc = "gpg_existing"
    /\ output' = Listing(keyring)
    /\ parsed' = TRUE
    /\ IF ParseKeyId(Listing(keyring)) # None
       THEN \E use \in BOOLEAN :
               IF use
               THEN /\ gpg_key_id' = ParseKeyId(Listing(keyring))
                    /\ UNCHANGED declined
                    /\ Goto("git_config")
               ELSE /\ gpg_key_id' = None
                    /\ declined' = ParseKeyId(Listing(keyring))
                    /\ Goto("gpg_generate")
       ELSE /\ gpg_key_id' = None
            /\ UNCHANGED declined
            /\ Goto("gpg_generate")
    /\ UNCHANGED <<stepVars, PINENTRY_PATH, shellVars, runVars, idVars, sshVars,
                   keyring, gen_failed, git_cmds, git_config, probe, gpg_available,
                   returned_id, all_good, summary>>

\* the keyrings gpg can leave after a generation that made a key: the new
\* key listed before or after the ones already there
Generated(ring) ==
    LET new == CHOOSE k \in 1..MaxGpgKeys :
                   /\ \A i \in 1..Len(ring) : ring[i] # k
                   /\ \A j \in 1..(k - 1) : \E i \in 1..Len(ring) : ring[i] = j
    IN  {<<new>> \o ring, ring \o <<new>>}

\* setup_gpg(): generate, list again and take the first sec line's id;
\* return None when the listing gives none
GpgGenerate ==
    /\ pc = "gpg_generate"
    /\ \E ring \in (IF Len(keyring) < MaxGpgKeys THEN Generated(keyring) ELSE {})
                       \cup {keyring} :
          /\ keyring' = ring
          /\ gen_failed' = (ring = keyring)
          /\ output' = Listing(ring)
          /\ gpg_key_id' = ParseKeyId(Listing(ring))
          /\ IF ParseKeyId(Listing(ring)) # None
             THEN Goto("git_config")
             ELSE Goto("done_summary")
    /\ UNCHANGED <<stepVars, PINENTRY_PATH, parsed, shellVars, runVars, idVars,
                   sshVars, declined, git_cmds, git_config, probe, gpg_available,
                   returned_id, all_good, summary>>

\* commit.gpgsign switched on before the signing key and program are set
commandsSignFirst(key_id, n, e) ==
    << <<"commit.gpgsign", <<"true">> >>,
       <<"user.signingkey", key_id>>,
       <<"user.name", <<n>> >>,
       <<"user.email", <<e>> >>,
       <<"gpg.program", <<"gpg">> >> >>

\* setup_gpg(): the list named commands
commands(key_id, n, e) ==
    << <<"user.signingkey", key_id>>,
       <<"user.name", <<n>> >>,
       <<"user.email", <<e>> >>,
       <<"gpg.program", <<"gpg">> >>,
       <<"commit.gpgsign", <<"true">> >> >>

\* setup_gpg(): for c in commands: sh(c), one command per step
GitConfig ==
    /\ pc = "git_config"
    /\ LET c == commands(gpg_key_id, user_name, user_email)[Len(git_cmds) + 1]
       IN  /\ git_cmds' = Append(git_cmds, c)
           /\ git_config' = [git_config EXCEPT ![c[1]] = c[2]]
    /\ IF Len(git_cmds) + 1 = Len(commands(gpg_key_id, user_name, user_email))
       THEN Goto("shell_rc")
       ELSE Goto("git_config")
    /\ UNCHANGED <<stepVars, PINENTRY_PATH, parseVars, shellVars, runVars, idVars,
                   sshVars, keyring, declined, gen_failed, probe, gpg_available,
                   returned_id, all_good, summary>>

\* setup_gpg(): the shell rc part
ShellRc ==
    /\ pc = "shell_rc"
    /\ \E io \in IoOutcomes :
          FileStep(SHELL_RC, ShellRcStep(files[SHELL_RC]), "gpg_export", io)
    /\ UNCHANGED <<PINENTRY_PATH, parseVars, shellVars, runVars, idVars, sshVars,
                   gpgVars, probe, gpg_available, returned_id, all_good, summary>>

\* setup_gpg(): export the public key, return gpg_key_id; then main():
\* verify when the returned id is truthy
GpgExport ==
    /\ pc = "gpg_export"
    /\ returned_id' = gpg_key_id
    /\ IF gpg_key_id # None THEN Goto("verify") ELSE Goto("done_summary")
    /\ UNCHANGED <<stepVars, PINENTRY_PATH, parseVars, shellVars, runVars, idVars,
                   sshVars, gpgVars, probe, gpg_available, all_good, summary>>

\* verify(): all_good = all(passed for the five checks)
Verify ==
    /\ pc = "verify"
    /\ all_good' = /\ ssh_pub # 0
                   /\ files[SSH_CONFIG].exists
                   /\ HasGithubEntry(files[SSH_CONFIG].content)
                   /\ returned_id # None
                   /\ git_config["commit.gpgsign"] = <<"true">>
                   /\ files[SHELL_RC].exists
                   /\ HasGpgTty(files[SHELL_RC].content)
    /\ Goto("done_summary")
    /\ UNCHANGED <<stepVars, PINENTRY_PATH, parseVars, shellVars, runVars, idVars,
                   sshVars, gpgVars, probe, gpg_available, returned_id, summary>>

\* done_summary(all_good): one of the two panels
DoneSummary ==
    /\ pc = "done_summary"
    /\ summary' = IF all_good THEN "Setup Complete" ELSE "Needs Attention"
    /\ Goto("source_rc")
    /\ UNCHANGED <<stepVars, PINENTRY_PATH, parseVars, shellVars, runVars, idVars,
                   sshVars, gpgVars, probe, gpg_available, returned_id, all_good>>

\* main(): source the shell rc, then return
SourceRc ==
    /\ pc = "source_rc"
    /\ Exit(EXIT_OK, "returned")
    /\ UNCHANGED <<stepVars, PINENTRY_PATH, parseVars, shellVars, runVars, idVars,
                   sshVars, gpgVars, probe, gpg_available, returned_id, all_good,
                   summary>>

\* KeyboardInterrupt handled like any other exception: printed and re-raised
InterruptReraised ==
    /\ pc \notin {"idle", "exited"}
    /\ Exit(EXIT_FAILED, "interrupt")
    /\ UNCHANGED <<stepVars, PINENTRY_PATH, parseVars, shellVars, runVars, idVars,
                   sshVars, gpgVars, probe, gpg_available, returned_id, all_good,
                   summary>>

\* main(): except KeyboardInterrupt: sys.exit(130), from wherever the run is
Interrupt ==
    /\ pc \notin {"idle", "exited"}
    /\ Exit(EXIT_INTERRUPTED, "interrupt")
    /\ UNCHANGED <<stepVars, PINENTRY_PATH, parseVars, shellVars, runVars, idVars,
                   sshVars, gpgVars, probe, gpg_available, returned_id, all_good,
                   summary>>

\* the wizard started again after a run has ended
Rerun ==
    /\ pc = "exited"
    /\ run_no < MaxWizardRuns
    /\ run_no' = run_no + 1
    /\ snapshot' = Disk
    /\ pc' = "welcome"
    /\ visited' = {"welcome"}
    /\ exit_code' = -1
    /\ exit_kind' = "none"
    /\ exit_at' = "none"
    /\ probe' = NoProbe
    /\ gpg_available' = FALSE
    /\ user_name' = "none"
    /\ user_email' = "none"
    /\ ssh_log' = <<>>
    /\ declined' = None
    /\ gen_failed' = FALSE
    /\ git_cmds' = <<>>
    /\ returned_id' = None
    /\ all_good' = FALSE
    /\ summary' = "none"
    /\ output' = <<>>
    /\ gpg_key_id' = None
    /\ parsed' = FALSE
    /\ PINENTRY_PATH' \in {PinentryOptHomebrew, PinentryUsrLocal}
    /\ UNCHANGED <<stepVars, shellVars, origin, ssh_key, ssh_pub, backups, keyring,
                   git_config>>

Next ==
    \/ Welcome
    \/ Preflight
    \/ CollectInfo
    \/ SshChoice
    \/ SshKeygen
    \/ SshConfig
    \/ SshPublish
    \/ GpgAgentConf
    \/ GpgExisting
    \/ GpgGenerate
    \/ GitConfig
    \/ ShellRc
    \/ GpgExport
    \/ Verify
    \/ DoneSummary
    \/ SourceRc
    \/ Interrupt
    \/ Rerun

Spec ==
    Init /\ [][Next]_vars

(***************************************************************************)
(* Properties of the managed-file steps                                    *)
(***************************************************************************)
MarkerOf(n) ==
    CASE n = SSH_CONFIG -> GITHUB_MARKER
      [] n = GPG_AGENT_CONF -> PINENTRY_MARKER
      [] n = SHELL_RC -> GPG_TTY_MARKER

\* the marker test the step of file n applies to a content
Configured(n, content) ==
    IF n = SSH_CONFIG
    THEN Contains(Lower(content), MarkerOf(n))
    ELSE Contains(content, MarkerOf(n))

\* the block the step of file n adds to an existing file
BlockOf(n) ==
    CASE n = SSH_CONFIG -> github_block
      [] n = GPG_AGENT_CONF ->
            <<"\n">> \o PINENTRY_MARKER \o <<" ">> \o PINENTRY_PATH \o <<"\n">>
      [] n = SHELL_RC -> gpg_tty_append

EndsWith(s, t) ==
    Len(s) >= Len(t) /\ SubSeq(s, Len(s) - Len(t) + 1, Len(s)) = t

\* C1: for each managed file and every initial state of it, the file after
\* the step has run twice holds exactly what it held after the step ran once.
C1_Idempotent ==
    \A n \in ManagedFiles :
        runs[n] >= 2 => files[n].content = before[n].content

\* the three steps have each run twice: ~/.ssh/config was appended to on the
\* first run, gpg-agent.conf was created, the shell rc already had the marker
C1_Witness ==
    /\ \A n \in ManagedFiles : runs[n] >= 2
    /\ EndsWith(files[SSH_CONFIG].content, github_block)
    /\ Contains(files[SSH_CONFIG].content, <<"g","i","t","l","a","b">>)
    /\ files[GPG_AGENT_CONF].content
          = PINENTRY_MARKER \o <<" ">> \o PINENTRY_PATH \o <<"\n">>
    /\ ~EndsWith(files[SHELL_RC].content, gpg_tty_create)
    /\ Contains(files[SHELL_RC].content, GPG_TTY_MARKER)

\* C2: when a managed file exists with content C that does not hold its
\* marker, the step leaves C followed by the block: the content starts with
\* exactly C and nothing of C is rewritten or removed.
C2_AppendKeepsPrefix ==
    \A n \in ManagedFiles :
        (runs[n] >= 1 /\ before[n].exists /\ ~Configured(n, before[n].content))
            => /\ StartsWith(files[n].content, before[n].content)
               /\ files[n].content = before[n].content \o BlockOf(n)

\* an existing ~/.ssh/config with a gitlab.com host got the github block
C2_Witness ==
    /\ runs[SSH_CONFIG] = 1
    /\ before[SSH_CONFIG].exists
    /\ Len(before[SSH_CONFIG].content) > Len(GITHUB_MARKER)
    /\ ~Configured(SSH_CONFIG, before[SSH_CONFIG].content)
    /\ files[SSH_CONFIG].content = before[SSH_CONFIG].content \o github_block

\* C3: when a managed file exists and its content holds the marker anywhere,
\* the step changes nothing: the file is byte for byte what it was.
C3_MarkerPresentNoMutation ==
    \A n \in ManagedFiles :
        (runs[n] >= 1 /\ before[n].exists
            /\ Contains(before[n].content, MarkerOf(n)))
            => files[n] = before[n]

\* a gpg-agent.conf that held the marker after some other text was stepped on
C3_Witness ==
    /\ runs[GPG_AGENT_CONF] = 1
    /\ before[GPG_AGENT_CONF].exists
    /\ Contains(before[GPG_AGENT_CONF].content, PINENTRY_MARKER)
    /\ ~StartsWith(before[GPG_AGENT_CONF].content, PINENTRY_MARKER)
    /\ files[GPG_AGENT_CONF] = before[GPG_AGENT_CONF]

\* C4: from an existing, zero-length gpg-agent.conf the step leaves exactly
\* "pinentry-program X\n", with no character before or after it.
C4_EmptyAgentConfExact ==
    (runs[GPG_AGENT_CONF] = 1 /\ before[GPG_AGENT_CONF].exists
        /\ before[GPG_AGENT_CONF].content = <<>>)
        => files[GPG_AGENT_CONF].content
              = PINENTRY_MARKER \o <<" ">> \o PINENTRY_PATH \o <<"\n">>

\* C5: when a managed file does not exist, the step creates it holding the
\* block without its leading whitespace, so the content does not begin with
\* a newline, and ~/.ssh/config gets mode 0600.
C5_CreateWhenAbsent ==
    \A n \in ManagedFiles :
        (runs[n] >= 1 /\ ~before[n].exists)
            => /\ files[n].exists
               /\ files[n].content # <<>>
               /\ files[n].content[1] \notin Whitespace
               /\ EndsWith(BlockOf(n), files[n].content)
               /\ \A i \in 1..(Len(BlockOf(n)) - Len(files[n].content)) :
                      BlockOf(n)[i] \in Whitespace
               /\ (n = SSH_CONFIG => files[n].mode = "0600")

\* ~/.ssh/config did not exist and was created by the step
C5_Witness ==
    /\ runs[SSH_CONFIG] = 1
    /\ ~before[SSH_CONFIG].exists
    /\ files[SSH_CONFIG].exists
    /\ files[SSH_CONFIG].mode = "0600"
    /\ StartsWith(files[SSH_CONFIG].content, <<"H","o","s","t">>)

(***************************************************************************)
(* Properties of the key-id extraction                                     *)
(***************************************************************************)
\* the lines of the listing, each trimmed
TrimmedLines ==
    LET ls == SplitLines(Strip(output))
    IN  [k \in 1..Len(ls) |-> Strip(ls[k])]

Qualifies(l) ==
    Len(l) >= 3 /\ l[1] = "s" /\ l[2] = "e" /\ l[3] = "c"

\* index i of l is a slash followed by at least MIN_KEY_LEN hex characters
HexAfterSlash(l, i) ==
    /\ l[i] = "/"
    /\ i + MIN_KEY_LEN <= Len(l)
    /\ \A j \in 1..MIN_KEY_LEN : l[i + j] \in HexChars

\* r is the whole run of hex characters that follows index i of l
IsRunAt(l, i, r) ==
    /\ Len(r) >= MIN_KEY_LEN
    /\ i + Len(r) <= Len(l)
    /\ \A j \in 1..Len(r) : r[j] = l[i + j] /\ r[j] \in HexChars
    /\ (i + Len(r) = Len(l) \/ l[i + Len(r) + 1] \notin HexChars)

MatchingLines ==
    {k \in 1..Len(TrimmedLines) :
        /\ Qualifies(TrimmedLines[k])
        /\ \E i \in 1..Len(TrimmedLines[k]) : HexAfterSlash(TrimmedLines[k], i)}

\* the characters from index i of l up to the next whitespace or the end
RECURSIVE TokenAt(_, _)
TokenAt(l, i) ==
    IF i <= Len(l) /\ l[i] \notin Whitespace
    THEN <<l[i]>> \o TokenAt(l, i + 1)
    ELSE <<>>

\* C6: the extraction returns the whole run of 8 or more characters of
\* A-F, 0-9 that follows a slash on the first line that starts with sec after
\* trimming and has such a run; sec lines without one are passed over, and
\* the returned value holds no character outside A-F, 0-9.
C6_ExtractsHexRun ==
    parsed =>
        /\ \A j \in 1..Len(gpg_key_id) : gpg_key_id[j] \in HexChars
        /\ IF MatchingLines = {}
           THEN gpg_key_id = None
           ELSE LET l == TrimmedLines[Min(MatchingLines)]
                    i == Min({x \in 1..Len(l) : HexAfterSlash(l, x)})
                IN  IsRunAt(l, i, gpg_key_id)

\* a sec line without a slash came first and was passed over; the id was
\* taken from the sec line after it
C6_Witness ==
    /\ parsed
    /\ gpg_key_id = SampleKey
    /\ StartsWith(output, SEC_PREFIX \o <<" ">> \o Algo \o <<"\n">>)
    /\ Min(MatchingLines) = 2

\* C7: a sec line whose token after the slash holds a character outside
\* A-F, 0-9 yields no match: the extraction never returns the hex characters
\* that precede that character in the token.
C7_NoPartialToken ==
    parsed =>
        \A k \in 1..Len(TrimmedLines) :
            \A i \in 1..Len(TrimmedLines[k]) :
                (/\ Qualifies(TrimmedLines[k])
                 /\ TrimmedLines[k][i] = "/"
                 /\ \E c \in 1..Len(TokenAt(TrimmedLines[k], i + 1)) :
                        TokenAt(TrimmedLines[k], i + 1)[c] \notin HexChars)
                    => ~(/\ gpg_key_id # None
                         /\ StartsWith(TokenAt(TrimmedLines[k], i + 1), gpg_key_id))

\* C8: the extraction returns absent for an empty listing, for a listing
\* with no line that starts with sec, and for sec lines that have no slash
\* followed by a hex run.
C8_AbsentWhenNoMatch ==
    (/\ parsed
     /\ \/ output = <<>>
        \/ \A k \in 1..Len(TrimmedLines) : ~Qualifies(TrimmedLines[k])
        \/ \A k \in 1..Len(TrimmedLines) :
              Qualifies(TrimmedLines[k])
                  => \A i \in 1..Len(TrimmedLines[k]) :
                         ~HexAfterSlash(TrimmedLines[k], i))
        => gpg_key_id = None

\* a listing whose sec line has no slash, followed by an ssb line that has a
\* key id, was parsed to absent
C8_Witness ==
    /\ parsed
    /\ gpg_key_id = None
    /\ Len(TrimmedLines) = 2
    /\ TrimmedLines[1] = SEC_PREFIX \o <<" ">> \o Algo
    /\ TrimmedLines[2] = <<"s","s","b"," ">> \o Algo \o <<"/">> \o SampleKey

(***************************************************************************)
(* Properties of the shell helpers                                         *)
(***************************************************************************)
\* C9: no shell helper (sh, sh_ok, cmd_exists) propagates a failure to its
\* caller, whatever the command does, a launch that raises included.
C9_GatewayNeverThrows ==
    result.kind # "raised"

\* C10: sh returns the empty string whenever the command exits non-zero or
\* cannot be launched.
C10_ShEmptyOnFailure ==
    (result.op = "sh" /\ (cmd.launch = "raises" \/ cmd.returncode # 0))
        => result.text = <<>>

(***************************************************************************)
(* Properties of whole runs of the wizard                                  *)
(***************************************************************************)
PinentryPaths ==
    {PinentryOptHomebrew, PinentryUsrLocal}

\* what one uninterrupted run leaves in managed file n when it started from
\* origin[n] and pinentry-mac was found at path
OneRunContent(n, path) ==
    LET body == CASE n = SSH_CONFIG -> Tail(github_block)
                  [] n = GPG_AGENT_CONF ->
                        PINENTRY_MARKER \o <<" ">> \o path \o <<"\n">>
                  [] n = SHELL_RC -> Tail(gpg_tty_append)
    IN  IF ~origin[n].exists
        THEN body
        ELSE IF Configured(n, origin[n].content)
        THEN origin[n].content
        ELSE origin[n].content \o <<"\n">> \o body

\* managed file n holds what one uninterrupted run would have left in it
AsAfterOneRun(n) ==
    /\ files[n].exists
    /\ \E path \in PinentryPaths : files[n].content = OneRunContent(n, path)

\* C11: whatever runs came before, interrupted anywhere or not, every managed
\* file is either what it was before the first run or what one uninterrupted
\* run makes of that starting content (so the block is never there twice); a
\* run that has come to its end has left ~/.ssh/config so, and one that took
\* GPG setup to its end has left all three so, each holding its marker.
C11_RerunSafe ==
    /\ \A n \in ManagedFiles : files[n] = origin[n] \/ AsAfterOneRun(n)
    /\ exit_kind = "returned"
          => /\ AsAfterOneRun(SSH_CONFIG)
             /\ Configured(SSH_CONFIG, files[SSH_CONFIG].content)
    /\ (exit_kind = "returned" /\ returned_id # None)
          => \A n \in ManagedFiles :
                 AsAfterOneRun(n) /\ Configured(n, files[n].content)

\* a first run appended the block to an existing ~/.ssh/config and was
\* interrupted inside the git config loop (user.signingkey set, commit.gpgsign
\* not yet); the second run went through to "Setup Complete" and the files
\* hold one block each
C11_Witness ==
    /\ run_no = 2
    /\ exit_kind = "returned"
    /\ summary = "Setup Complete"
    /\ origin[SSH_CONFIG].exists
    /\ ~Configured(SSH_CONFIG, origin[SSH_CONFIG].content)
    /\ snapshot.files[SSH_CONFIG].content = origin[SSH_CONFIG].content \o github_block
    /\ snapshot.git_config["user.signingkey"] # None
    /\ snapshot.git_config["commit.gpgsign"] = None
    /\ snapshot.files[SHELL_RC] = origin[SHELL_RC]
    /\ files[SSH_CONFIG] = snapshot.files[SSH_CONFIG]
    /\ files[SHELL_RC].content = origin[SHELL_RC].content \o gpg_tty_append

\* the position of the run at which the step of managed file n is taken
StepPc(n) ==
    CASE n = SSH_CONFIG -> "ssh_config"
      [] n = GPG_AGENT_CONF -> "gpg_agent_conf"
      [] n = SHELL_RC -> "shell_rc"

\* the step of managed file n has something to write
WriteDue(n) ==
    ~files[n].exists \/ ~Configured(n, files[n].content)

\* no phase after the one the run ended in has been entered
NothingAfterExit ==
    \A ph \in visited : PhaseRank(ph) <= PhaseRank(exit_at)

\* C12 as stated: a write or permission failure on a managed file aborts only
\* its step, so a run that met one still gets to the final summary.
C12_StepOnlyAbort ==
    exit_kind = "exception" => "done_summary" \in visited

\* C12, amended: a write or permission failure on a managed file is surfaced
\* at once and aborts the whole run: the exception leaves main(), the exit
\* status is 1, and no phase after the failing one (so neither verification
\* nor the final summary) is executed; a step that had to write and did not
\* is never followed by anything but the end of the run.
C12_WriteFailureAbortsRun ==
    /\ [](exit_kind = "exception"
             => /\ pc = "exited"
                /\ exit_code = EXIT_FAILED
                /\ exit_at \in {"setup_ssh", "setup_gpg"}
                /\ NothingAfterExit
                /\ "verify" \notin visited
                /\ "done_summary" \notin visited
                /\ summary = "none")
    /\ [][\A n \in ManagedFiles :
             (pc = StepPc(n) /\ WriteDue(n) /\ files'[n].content = files[n].content)
                 => /\ pc' = "exited"
                    /\ exit_kind' \in {"exception", "interrupt"}]_vars

\* writing ~/.ssh/config failed in a run that had GPG available: the file is
\* what it was, the run is over with status 1 and GPG setup never started
C12_Witness ==
    /\ exit_kind = "exception"
    /\ exit_at = "setup_ssh"
    /\ gpg_available
    /\ ssh_key # 0
    /\ WriteDue(SSH_CONFIG)
    /\ files[SSH_CONFIG] = snapshot.files[SSH_CONFIG]
    /\ "setup_gpg" \notin visited

\* ssh-keygen was run in this run and left no key at the key path
SshKeygenFailed ==
    /\ \E i \in 1..Len(ssh_log) : ssh_log[i] = "keygen"
    /\ ssh_key = 0

\* C13 as stated: when the SSH or the GPG generation tool produces no key the
\* run does not terminate at that point.
C13_GenerationNeverFatal ==
    (SshKeygenFailed \/ gen_failed)
        => ~(pc = "exited" /\ exit_kind = "sys_exit")

\* C13, amended: a failed GPG key generation is reported but is not fatal, the
\* run does not terminate at that point and, when no key id is held, goes
\* straight on to the final summary; a failed SSH key generation is reported
\* and is fatal: the run terminates at that point with exit status 1.
C13_OnlyGpgGenerationNotFatal ==
    /\ [](SshKeygenFailed
             => /\ pc = "exited"
                /\ exit_kind = "sys_exit"
                /\ exit_code = EXIT_FAILED
                /\ exit_at = "setup_ssh"
                /\ NothingAfterExit)
    /\ [](gen_failed => ~(pc = "exited" /\ exit_kind = "sys_exit"))
    /\ []((gen_failed /\ gpg_key_id = None /\ pc # "exited")
             => pc \in {"done_summary", "source_rc"})
    /\ []((gen_failed /\ exit_kind = "returned") => summary # "none")
    /\ [][(pc = "gpg_generate" /\ gen_failed') => pc' # "exited"]_vars

\* ssh-keygen made a key, GPG generation made none and no key id is held, and
\* the run went on to the final summary and returned
C13_Witness ==
    /\ gen_failed
    /\ gpg_key_id = None
    /\ ssh_key = run_no + 1
    /\ exit_kind = "returned"
    /\ exit_code = EXIT_OK
    /\ summary = "Needs Attention"

\* C14: whenever GPG key generation was attempted and produced no new key,
\* the steps that depend on it are blocked: no git global config key is set,
\* the shell rc is not modified and setup_gpg returns no key identifier.
C14_FailedGenerationBlocks ==
    gen_failed
        => /\ git_cmds = <<>>
           /\ files[SHELL_RC] = snapshot.files[SHELL_RC]
           /\ gpg_key_id = None
           /\ returned_id = None

\* preflight met a hard precondition that failed: wrong platform, git not on
\* PATH, or Homebrew still missing after its installation was accepted
HardFailure ==
    \/ probe.platform \notin {"Darwin", "unknown"}
    \/ (probe.platform = "Darwin" /\ ~probe.git)
    \/ (probe.platform = "Darwin" /\ probe.git /\ ~probe.brew /\ probe.install
           /\ ~probe.brew_after)

\* C15: a failed hard precondition terminates the run with exit status 1
\* during preflight, before identity collection and before any key file or
\* managed file is created or modified.
C15_HardFailureExits ==
    HardFailure
        => /\ pc = "exited"
           /\ exit_kind = "sys_exit"
           /\ exit_code = EXIT_FAILED
           /\ exit_at = "preflight"
           /\ visited = {"welcome", "preflight"}
           /\ user_name = "none"
           /\ user_email = "none"
           /\ Disk = snapshot

\* a second run on a machine the first run had changed found Homebrew still
\* missing after the user accepted its installation, and ended with status 1
C15_Witness ==
    /\ HardFailure
    /\ probe.install
    /\ run_no = 2
    /\ snapshot.files # origin
    /\ exit_code = EXIT_FAILED
    /\ Disk = snapshot

\* preflight met a soft precondition that failed: Homebrew missing and its
\* installation declined, or GnuPG missing and not installable
SoftFailure ==
    /\ probe.platform = "Darwin"
    /\ probe.git
    /\ \/ (~probe.brew /\ ~probe.install)
       \/ ((probe.brew \/ probe.brew_after) /\ ~probe.gpg)

\* what a failed soft precondition leaves out of the run
GpgSkipped ==
    /\ ~gpg_available
    /\ "setup_gpg" \notin visited
    /\ "verify" \notin visited
    /\ files[GPG_AGENT_CONF] = snapshot.files[GPG_AGENT_CONF]
    /\ files[SHELL_RC] = snapshot.files[SHELL_RC]
    /\ keyring = snapshot.keyring
    /\ git_config = snapshot.git_config

\* the run returned from main() after the not-all-good report
EndedNeedsAttention ==
    /\ exit_kind = "returned"
    /\ exit_code = EXIT_OK
    /\ summary = "Needs Attention"
    /\ {"collect_info", "setup_ssh", "done_summary"} \subseteq visited

C17_InterruptAborts ==
    /\ [](exit_kind = "interrupt"
             => /\ pc = "exited"
                /\ exit_code = EXIT_INTERRUPTED
                /\ exit_at \in visited
                /\ NothingAfterExit)
    /\ [][(exit_kind # "interrupt" /\ exit_kind' = "interrupt")
             => /\ exit_at' = PhaseOf(pc)
                /\ visited' = visited
                /\ Disk' = Disk
                /\ summary' = summary]_vars
    /\ [][exit_kind = "interrupt" => (run_no' = run_no + 1 /\ pc' = "welcome")]_vars

\* the run was interrupted during verification, after GPG setup had returned
\* a key id: status 130 and no final summary
C17_Witness ==
    /\ exit_kind = "interrupt"
    /\ exit_code = EXIT_INTERRUPTED
    /\ exit_at = "verify"
    /\ returned_id # None
    /\ "done_summary" \notin visited
    /\ summary = "none"

\* the user answered no to "Ready?"
DeclinedAtWelcome ==
    exit_at = "welcome" /\ exit_kind = "sys_exit"

\* C18: when the user declines at the welcome prompt the run exits with
\* status 0 and nothing runs after the decline: no preflight check, no
\* prompt, no external tool and no file mutation.
C18_DeclineExitsClean ==
    /\ [](DeclinedAtWelcome
             => /\ pc = "exited"
                /\ exit_code = EXIT_OK
                /\ visited = {"welcome"}
                /\ probe = NoProbe
                /\ user_name = "none"
                /\ user_email = "none"
                /\ ssh_log = <<>>
                /\ git_cmds = <<>>
                /\ ~parsed
                /\ summary = "none"
                /\ Disk = snapshot)
    /\ [][DeclinedAtWelcome => (run_no' = run_no + 1 /\ pc' = "welcome")]_vars

\* the second run, on a machine the first run had set up, was declined at
\* the welcome prompt
C18_Witness ==
    /\ DeclinedAtWelcome
    /\ run_no = 2
    /\ exit_code = EXIT_OK
    /\ files[SHELL_RC] # origin[SHELL_RC]
    /\ Disk = snapshot

\* the five keys, in the order the claim gives them
FiveKeys ==
    <<"user.signingkey", "user.name", "user.email", "gpg.program", "commit.gpgsign">>

\* the values the claim gives
ClaimedValue(key) ==
    CASE key = "user.signingkey" -> gpg_key_id
      [] key = "gpg.program" -> <<"gpg">>
      [] key = "commit.gpgsign" -> <<"true">>

\* git config ran for exactly the five keys, in order, with the claimed values
FiveKeysSet ==
    /\ Len(git_cmds) = Len(FiveKeys)
    /\ \A i \in 1..Len(FiveKeys) : git_cmds[i][1] = FiveKeys[i]
    /\ \A i \in {1, 4, 5} :
          /\ git_cmds[i][2] = ClaimedValue(FiveKeys[i])
          /\ git_config[FiveKeys[i]] = ClaimedValue(FiveKeys[i])

\* C19: whenever GPG setup holds a key identifier it sets exactly five git
\* global config keys, in this order: user.signingkey (to that identifier),
\* user.name, user.email, gpg.program (to "gpg"), commit.gpgsign (to
\* "true"); when it holds no identifier it sets none of them.
C19_FiveGitConfigKeys ==
    /\ Len(git_cmds) <= Len(FiveKeys)
    /\ \A i \in 1..Len(git_cmds) : git_cmds[i][1] = FiveKeys[i]
    /\ gpg_key_id = None => git_cmds = <<>>
    /\ (pc \in {"shell_rc", "gpg_export", "verify"} \/ returned_id # None)
          => (gpg_key_id # None /\ FiveKeysSet)
    /\ (pc \in {"done_summary", "source_rc"} /\ "setup_gpg" \in visited
           /\ gpg_key_id # None)
          => FiveKeysSet

\* GPG setup generated a key on a machine that had none, set the five keys
\* and returned the key id
C19_Witness ==
    /\ returned_id = GpgKeyId(1)
    /\ snapshot.keyring = <<>>
    /\ FiveKeysSet
    /\ git_config["user.signingkey"] = returned_id
    /\ git_config["commit.gpgsign"] = <<"true">>
    /\ snapshot.git_config["commit.gpgsign"] = None

\* the user chose replace in this run
Replaced ==
    ssh_log # <<>> /\ ssh_log[1] = "backup"

\* C20: when an SSH key exists and the user chooses replace, the existing
\* private key (and the public key, if there is one) is renamed to a backup
\* named after the time rather than deleted, the key path is then absent, the
\* generation tool is invoked, and the github.com block is ensured in
\* ~/.ssh/config only after a key exists at the key path.
C20_ReplaceBacksUpThenGenerates ==
    /\ [][(pc = "ssh_choice" /\ ssh_log' = Append(ssh_log, "backup"))
             => /\ ssh_key # 0
                /\ [file |-> "id_ed25519", ts |-> run_no, key |-> ssh_key] \in backups'
                /\ ssh_pub # 0
                      => [file |-> "id_ed25519.pub", ts |-> run_no, key |-> ssh_pub]
                             \in backups'
                /\ ssh_pub = 0
                      => \A b \in backups' \ backups : b.file = "id_ed25519"
                /\ backups \subseteq backups'
                /\ ssh_key' = 0
                /\ ssh_pub' = 0
                /\ pc' \in {"ssh_keygen", "exited"}]_vars
    /\ [][backups \subseteq backups']_vars
    /\ []((Replaced /\ pc = "ssh_keygen") => ssh_key = 0)
    /\ []((Replaced /\ pc \in {"ssh_config", "ssh_publish", "gpg_agent_conf",
                                 "gpg_existing", "gpg_generate", "git_config",
                                 "shell_rc", "gpg_export", "verify",
                                 "done_summary", "source_rc"})
             => /\ Len(ssh_log) >= 2
                /\ ssh_log[2] = "keygen")
    /\ [](Replaced
             => \A i \in 1..Len(ssh_log) :
                    ssh_log[i] = "config"
                        => /\ i = 3
                           /\ ssh_log[2] = "keygen"
                           /\ ssh_key = run_no + 1
                           /\ \A b \in backups : b.key # ssh_key)
    /\ [](pc = "ssh_config" => ssh_key # 0)

\* an existing key pair was replaced: both files are kept as backups of this
\* run, ssh-keygen made a new pair, and then ~/.ssh/config got its block
C20_Witness ==
    /\ ssh_log = <<"backup", "keygen", "config">>
    /\ snapshot.ssh_key # 0
    /\ snapshot.ssh_pub # 0
    /\ [file |-> "id_ed25519", ts |-> run_no, key |-> snapshot.ssh_key] \in backups
    /\ [file |-> "id_ed25519.pub", ts |-> run_no, key |-> snapshot.ssh_pub] \in backups
    /\ ssh_key = run_no + 1
    /\ ssh_key # snapshot.ssh_key
    /\ files[SSH_CONFIG].exists
    /\ Configured(SSH_CONFIG, files[SSH_CONFIG].content)
    /\ files[SSH_CONFIG] # snapshot.files[SSH_CONFIG]

\* the step that has just been taken was the replace branch of setup_ssh
ReplaceStep ==
    pc = "ssh_choice" /\ ssh_log' = Append(ssh_log, "backup")

\* the step that has just been taken invoked ssh-keygen
KeygenStep ==
    ssh_log' = Append(ssh_log, "keygen")

\* C21: an existing SSH key goes back to absent only by a replace the user
\* chose: in a run without replace the key files that were there are neither
\* removed, renamed nor overwritten and ssh-keygen is not invoked; ssh-keygen
\* is invoked exactly when no key exists at the key path.
C21_KeyKeptUnlessReplaced ==
    /\ [][(ssh_key # 0 /\ ssh_key' # ssh_key) => ReplaceStep]_vars
    /\ [][(ssh_pub # 0 /\ ssh_pub' # ssh_pub) => ReplaceStep]_vars
    /\ [][backups' # backups => ReplaceStep]_vars
    /\ [][KeygenStep => (pc = "ssh_keygen" /\ ssh_key = 0)]_vars
    /\ [][(pc = "ssh_keygen" /\ pc' = "ssh_config") => (KeygenStep <=> ssh_key = 0)]_vars
    /\ [][(pc = "ssh_keygen" /\ ssh_key = 0 /\ exit_kind' # "interrupt") => KeygenStep]_vars
    /\ []((snapshot.ssh_key # 0 /\ ~Replaced /\ pc # "idle")
             => /\ ssh_key = snapshot.ssh_key
                /\ ssh_pub = snapshot.ssh_pub
                /\ backups = snapshot.backups
                /\ \A i \in 1..Len(ssh_log) : ssh_log[i] # "keygen")

\* the second run kept the key pair the first run had generated: no
\* ssh-keygen, no backup, and the run went through to its end
C21_Witness ==
    /\ run_no = 2
    /\ ssh_log = <<"keep", "config">>
    /\ snapshot.ssh_key = 2
    /\ ssh_key = snapshot.ssh_key
    /\ ssh_pub = snapshot.ssh_pub
    /\ backups = snapshot.backups
    /\ exit_kind = "returned"

(***************************************************************************)
(* Letter case in the marker tests                                         *)
(***************************************************************************)
\* the content holds the marker's letters in some letter case
HoldsInAnyCase(content, marker) ==
    Contains(Lower(content), Lower(marker))

\* the two managed files of GPG setup
GpgManagedFiles ==
    {GPG_AGENT_CONF, SHELL_RC}

\* C22: marker matching ignores letter case for ~/.ssh/config and respects it
\* for the other managed files: a ~/.ssh/config that holds "github.com" in
\* any letter case counts as configured and is left as it is, while a
\* gpg-agent.conf or shell rc that holds its marker only in another letter
\* case counts as not configured and gets the block appended.  (The first
\* part is written in the contrapositive: a ~/.ssh/config the step changed
\* did not hold the marker in any letter case.)
C22_CaseOfMarkers ==
    /\ (/\ runs[SSH_CONFIG] >= 1
        /\ before[SSH_CONFIG].exists
        /\ files[SSH_CONFIG] # before[SSH_CONFIG])
          => ~HoldsInAnyCase(before[SSH_CONFIG].content, GITHUB_MARKER)
    /\ \A n \in GpgManagedFiles :
          (/\ runs[n] >= 1
           /\ before[n].exists
           /\ ~Contains(before[n].content, MarkerOf(n))
           /\ HoldsInAnyCase(before[n].content, MarkerOf(n)))
             => /\ files[n].content = before[n].content \o BlockOf(n)
                /\ Contains(files[n].content, MarkerOf(n))

\* each step ran once: ~/.ssh/config held "GitHub.com" and is unchanged,
\* gpg-agent.conf held "Pinentry-Program" and the shell rc "gpg_tty", and
\* both got their block
C22_Witness ==
    /\ \A n \in ManagedFiles : runs[n] = 1 /\ before[n].exists
    /\ Contains(before[SSH_CONFIG].content, GithubMixedCase)
    /\ ~Contains(before[SSH_CONFIG].content, GITHUB_MARKER)
    /\ files[SSH_CONFIG] = before[SSH_CONFIG]
    /\ Contains(before[GPG_AGENT_CONF].content, PinentryMixedCase)
    /\ files[GPG_AGENT_CONF].content
          = before[GPG_AGENT_CONF].content \o BlockOf(GPG_AGENT_CONF)
    /\ Contains(before[SHELL_RC].content, GpgTtyLowerCase)
    /\ ~Contains(before[SHELL_RC].content, GPG_TTY_MARKER)
    /\ files[SHELL_RC].content = before[SHELL_RC].content \o gpg_tty_append

(***************************************************************************)
(* The key id GPG setup settles on after a decline                         *)
(***************************************************************************)
\* C23: when the user has declined the existing GPG key, the identifier GPG
\* setup then holds, writes to user.signingkey and returns is that of a newly
\* generated key and never the declined key's, whatever the generation did
\* and in whatever order gpg lists the keys.
C23_DeclinedKeyNeverUsed ==
    declined # None
        => /\ gpg_key_id # declined
           /\ returned_id # declined
           /\ \A i \in 1..Len(git_cmds) :
                  git_cmds[i][1] = "user.signingkey" => git_cmds[i][2] # declined
           /\ gpg_key_id # None
                 => \E i \in 1..Len(keyring) :
                        /\ GpgKeyId(keyring[i]) = gpg_key_id
                        /\ \A j \in 1..Len(snapshot.keyring) :
                               snapshot.keyring[j] # keyring[i]

====
